---------------------------- MODULE Spec2Model ----------------------------
(***************************************************************************)
(* SSO authentication broker of Video-Download-to-NAS:                     *)
(*   - the State Store (app/sso/security.py: generate_state, verify_state, *)
(*     cleanup_expired_states) over the sso_states table,                  *)
(*   - the Identity Resolver (app/sso/user_management.py) over the users   *)
(*     table,                                                              *)
(*   - the broker endpoints (app/sso.py: sso_login,                        *)
(*     sso_callback, link_sso_account, unlink_sso_account).                *)
(*                                                                         *)
(* Time is counted in minutes.  A state token is the index of its row in   *)
(* the history `issued`: secrets.token_urlsafe(32) never repeats a value.  *)
(***************************************************************************)
EXTENDS Integers, Sequences, FiniteSets, TLC

\* ---------------------------------------------------------------- bounds
MaxTime == 12
MaxTokens == 2
MaxUsers == 2
MaxFetches == 2

\* ------------------------------------------------------- program constants
\* timedelta(minutes=10) in generate_state
StateTTL == 10
\* quota of the first user (GB)
SuperAdminQuota == 100
\* get_setting(db, "admin_quota_gb", "10")
AdminQuota == 10
\* get_setting(db, "default_user_quota_gb", "1")
DefaultUserQuota == 1

\* ------------------------------------------------------------ value sets
NULL == "NULL"
NoUser == 0
NoState == 0
Providers == {"google", "github"}
Emails == {"a@x.com", "A@x.com"}
ExternalIDs == {"id-1", "id-2"}
Procs == {"w1", "w2"}
LocalNames == {"alice"}
NoLogin == -1

\* '@' in username
HasAt(username) == username \notin LocalNames

\* str.lower() on the e-mail addresses of the model
Lower(e) == IF e = "A@x.com" THEN "a@x.com" ELSE e

VARIABLES
    now,         \* datetime.now(), in minutes
    issued,      \* every SSOState row ever written, by token
    sso_states,  \* tokens whose row is in the sso_states table
    okCount,     \* per token: number of verify_state calls that returned
    last,        \* the last call and what it returned to its caller
    workers,     \* concurrent verify_state calls in flight, one per session
    users,       \* the users table, users[i] is the row with id = i
    settings,    \* the system_settings rows the resolver reads
    instance,    \* the provider instance of the request in progress
    scheduler    \* the module-level AsyncIOScheduler of sso/scheduler.py

acctVars == <<users, settings>>
auxVars == <<instance, scheduler>>
vars == <<now, issued, sso_states, okCount, last, workers, users, settings,
          instance, scheduler>>

Tokens == 1..MaxTokens

\* ------------------------------------------------------------ State Store
\* the row generate_state() writes
NewState(provider, user_id) ==
    [provider |-> provider, user_id |-> user_id, expires_at |-> now + StateTTL]

\* db.query(SSOState).filter(state == s, provider == p).first()
FindState(store, state, provider) ==
    state \in store /\ issued[state].provider = provider

\* sso_state.expires_at < datetime.now()
IsExpired(state) == issued[state].expires_at < now

\* mutants of verify_state
verify_state_keeps_row(store, state, provider) ==
    IF ~FindState(store, state, provider)
    THEN [ok |-> FALSE, err |-> "InvalidState", user_id |-> NoUser, store |-> store]
    ELSE IF IsExpired(state)
    THEN [ok |-> FALSE, err |-> "ExpiredState", user_id |-> NoUser,
          store |-> store \ {state}]
    ELSE [ok |-> TRUE, err |-> "none", user_id |-> issued[state].user_id,
          store |-> store]

verify_state_any_provider(store, state, provider) ==
    IF ~(state \in store)
    THEN [ok |-> FALSE, err |-> "InvalidState", user_id |-> NoUser, store |-> store]
    ELSE IF IsExpired(state)
    THEN [ok |-> FALSE, err |-> "ExpiredState", user_id |-> NoUser,
          store |-> store \ {state}]
    ELSE [ok |-> TRUE, err |-> "none", user_id |-> issued[state].user_id,
          store |-> store \ {state}]

verify_state_expired_kept(store, state, provider) ==
    IF ~FindState(store, state, provider)
    THEN [ok |-> FALSE, err |-> "InvalidState", user_id |-> NoUser, store |-> store]
    ELSE IF IsExpired(state)
    THEN [ok |-> FALSE, err |-> "ExpiredState", user_id |-> NoUser, store |-> store]
    ELSE [ok |-> TRUE, err |-> "none", user_id |-> issued[state].user_id,
          store |-> store \ {state}]

\* verify_state(db, state, provider) run by one session without interleaving:
\* what it returns or raises, and the table after its commit
verify_state(store, state, provider) ==
    IF ~FindState(store, state, provider)
    THEN [ok |-> FALSE, err |-> "InvalidState", user_id |-> NoUser, store |-> store]
    ELSE IF IsExpired(state)
    THEN [ok |-> FALSE, err |-> "ExpiredState", user_id |-> NoUser,
          store |-> store \ {state}]
    ELSE [ok |-> TRUE, err |-> "none", user_id |-> issued[state].user_id,
          store |-> store \ {state}]

\* ------------------------------------------------------------- Accounts
\* init_db(): the default rows of system_settings
DefaultSettings ==
    [allow_registration |-> TRUE, require_admin_approval |-> FALSE,
     default_user_role |-> "user"]

\* rows matching filter(auth_provider == provider, external_id == external_id)
ExactMatches(us, provider, external_id) ==
    {i \in DOMAIN us : us[i].auth_provider = provider
                       /\ us[i].external_id = external_id}

\* rows matching filter(User.email == email); email is a unique column
EmailMatches(us, email) == {i \in DOMAIN us : us[i].email = email}

\* what .first() may return for a set of matching rows (no ORDER BY)
FirstChoices(S) == IF S = {} THEN {NoUser} ELSE S

\* mutant of NewRole: the configured default role, also for the first user
NewRole_default_only(us, st) == st.default_user_role

\* role and quota of a new account (steps 5 and 6)
NewRole(us, st) ==
    IF Len(us) = 0 THEN "super_admin" ELSE st.default_user_role

NewQuota(us, st) ==
    IF Len(us) = 0 THEN SuperAdminQuota
    ELSE IF st.default_user_role = "admin" THEN AdminQuota
    ELSE DefaultUserQuota

\* is_active = 1 if is_first_user else (0 if require_approval else 1)
NewIsActive(us, st) ==
    IF Len(us) = 0 THEN 1 ELSE IF st.require_admin_approval THEN 0 ELSE 1

\* the User(...) row of step 7
NewSsoUser(us, st, provider, external_id, email, verified) ==
    [username |-> email, email |-> email, hashed_password |-> "random",
     role |-> NewRole(us, st), is_active |-> NewIsActive(us, st),
     storage_quota_gb |-> NewQuota(us, st), auth_provider |-> provider,
     external_id |-> external_id,
     email_verified |-> IF verified THEN 1 ELSE 0, last_login |-> now]

\* the unique constraints of users: username, email
UniqueViolation(us, row) ==
    \E i \in DOMAIN us :
        \/ us[i].username = row.username
        \/ (row.email /= NULL /\ us[i].email = row.email)

\* mutants of create_or_get_user_from_sso: the exact match is returned without
\* the is_active check; the e-mail match does not rebind the account; the
\* first user is created also when registration is disabled
create_or_get_returns_inactive(us, st, provider, external_id, email, verified, exact) ==
    IF email = NULL
    THEN [err |-> "MissingRequiredField", via |-> "none", user |-> NoUser, users |-> us]
    ELSE IF exact /= NoUser
    THEN [err |-> "none", via |-> "exact", user |-> exact,
          users |-> [us EXCEPT ![exact].last_login = now]]
    ELSE IF EmailMatches(us, email) /= {}
    THEN LET u == CHOOSE i \in EmailMatches(us, email) : TRUE IN
         IF us[u].is_active = 0
         THEN [err |-> "PendingApproval", via |-> "email", user |-> NoUser, users |-> us]
         ELSE [err |-> "none", via |-> "email", user |-> u,
               users |-> [us EXCEPT ![u].auth_provider = provider,
                                    ![u].external_id = external_id,
                                    ![u].email_verified = IF verified THEN 1 ELSE 0,
                                    ![u].last_login = now]]
    ELSE IF ~st.allow_registration
    THEN [err |-> "RegistrationDisabled", via |-> "none", user |-> NoUser, users |-> us]
    ELSE LET row == NewSsoUser(us, st, provider, external_id, email, verified) IN
         IF UniqueViolation(us, row)
         THEN [err |-> "IntegrityError", via |-> "none", user |-> NoUser, users |-> us]
         ELSE IF row.is_active = 0
         THEN [err |-> "PendingApprovalNewAccount", via |-> "created",
               user |-> NoUser, users |-> Append(us, row)]
         ELSE [err |-> "none", via |-> "created", user |-> Len(us) + 1,
               users |-> Append(us, row)]

create_or_get_keeps_binding(us, st, provider, external_id, email, verified, exact) ==
    IF email = NULL
    THEN [err |-> "MissingRequiredField", via |-> "none", user |-> NoUser, users |-> us]
    ELSE IF exact /= NoUser
    THEN IF us[exact].is_active = 0
         THEN [err |-> "PendingApproval", via |-> "exact", user |-> NoUser, users |-> us]
         ELSE [err |-> "none", via |-> "exact", user |-> exact,
               users |-> [us EXCEPT ![exact].last_login = now]]
    ELSE IF EmailMatches(us, email) /= {}
    THEN LET u == CHOOSE i \in EmailMatches(us, email) : TRUE IN
         IF us[u].is_active = 0
         THEN [err |-> "PendingApproval", via |-> "email", user |-> NoUser, users |-> us]
         ELSE [err |-> "none", via |-> "email", user |-> u,
               users |-> [us EXCEPT ![u].last_login = now]]
    ELSE IF ~st.allow_registration
    THEN [err |-> "RegistrationDisabled", via |-> "none", user |-> NoUser, users |-> us]
    ELSE LET row == NewSsoUser(us, st, provider, external_id, email, verified) IN
         IF UniqueViolation(us, row)
         THEN [err |-> "IntegrityError", via |-> "none", user |-> NoUser, users |-> us]
         ELSE IF row.is_active = 0
         THEN [err |-> "PendingApprovalNewAccount", via |-> "created",
               user |-> NoUser, users |-> Append(us, row)]
         ELSE [err |-> "none", via |-> "created", user |-> Len(us) + 1,
               users |-> Append(us, row)]

create_or_get_first_user_bypass(us, st, provider, external_id, email, verified, exact) ==
    IF email = NULL
    THEN [err |-> "MissingRequiredField", via |-> "none", user |-> NoUser, users |-> us]
    ELSE IF exact /= NoUser
    THEN IF us[exact].is_active = 0
         THEN [err |-> "PendingApproval", via |-> "exact", user |-> NoUser, users |-> us]
         ELSE [err |-> "none", via |-> "exact", user |-> exact,
               users |-> [us EXCEPT ![exact].last_login = now]]
    ELSE IF EmailMatches(us, email) /= {}
    THEN LET u == CHOOSE i \in EmailMatches(us, email) : TRUE IN
         IF us[u].is_active = 0
         THEN [err |-> "PendingApproval", via |-> "email", user |-> NoUser, users |-> us]
         ELSE [err |-> "none", via |-> "email", user |-> u,
               users |-> [us EXCEPT ![u].auth_provider = provider,
                                    ![u].external_id = external_id,
                                    ![u].email_verified = IF verified THEN 1 ELSE 0,
                                    ![u].last_login = now]]
    ELSE IF ~st.allow_registration /\ Len(us) > 0
    THEN [err |-> "RegistrationDisabled", via |-> "none", user |-> NoUser, users |-> us]
    ELSE LET row == NewSsoUser(us, st, provider, external_id, email, verified) IN
         IF UniqueViolation(us, row)
         THEN [err |-> "IntegrityError", via |-> "none", user |-> NoUser, users |-> us]
         ELSE IF row.is_active = 0
         THEN [err |-> "PendingApprovalNewAccount", via |-> "created",
               user |-> NoUser, users |-> Append(us, row)]
         ELSE [err |-> "none", via |-> "created", user |-> Len(us) + 1,
               users |-> Append(us, row)]

\* mutant of create_or_get_user_from_sso: the account with the e-mail is
\* looked up before the account bound to the identity
create_or_get_email_first(us, st, provider, external_id, email, verified, exact) ==
    IF email = NULL
    THEN [err |-> "MissingRequiredField", via |-> "none", user |-> NoUser, users |-> us]
    ELSE IF EmailMatches(us, email) /= {}
    THEN LET u == CHOOSE i \in EmailMatches(us, email) : TRUE IN
         IF us[u].is_active = 0
         THEN [err |-> "PendingApproval", via |-> "email", user |-> NoUser, users |-> us]
         ELSE [err |-> "none", via |-> "email", user |-> u,
               users |-> [us EXCEPT ![u].auth_provider = provider,
                                    ![u].external_id = external_id,
                                    ![u].email_verified = IF verified THEN 1 ELSE 0,
                                    ![u].last_login = now]]
    ELSE IF exact /= NoUser
    THEN IF us[exact].is_active = 0
         THEN [err |-> "PendingApproval", via |-> "exact", user |-> NoUser, users |-> us]
         ELSE [err |-> "none", via |-> "exact", user |-> exact,
               users |-> [us EXCEPT ![exact].last_login = now]]
    ELSE IF ~st.allow_registration
    THEN [err |-> "RegistrationDisabled", via |-> "none", user |-> NoUser, users |-> us]
    ELSE LET row == NewSsoUser(us, st, provider, external_id, email, verified) IN
         IF UniqueViolation(us, row)
         THEN [err |-> "IntegrityError", via |-> "none", user |-> NoUser, users |-> us]
         ELSE IF row.is_active = 0
         THEN [err |-> "PendingApprovalNewAccount", via |-> "created",
               user |-> NoUser, users |-> Append(us, row)]
         ELSE [err |-> "none", via |-> "created", user |-> Len(us) + 1,
               users |-> Append(us, row)]

\* create_or_get_user_from_sso(db, provider, external_id, user_info), where
\* exact is the row the first query returned: the error raised or "none",
\* the branch taken (the line it logs), the account returned, and the users
\* table afterwards
create_or_get_user_from_sso(us, st, provider, external_id, email, verified, exact) ==
    IF email = NULL
    THEN [err |-> "MissingRequiredField", via |-> "none", user |-> NoUser, users |-> us]
    ELSE IF exact /= NoUser
    THEN IF us[exact].is_active = 0
         THEN [err |-> "PendingApproval", via |-> "exact", user |-> NoUser, users |-> us]
         ELSE [err |-> "none", via |-> "exact", user |-> exact,
               users |-> [us EXCEPT ![exact].last_login = now]]
    ELSE IF EmailMatches(us, email) /= {}
    THEN LET u == CHOOSE i \in EmailMatches(us, email) : TRUE IN
         IF us[u].is_active = 0
         THEN [err |-> "PendingApproval", via |-> "email", user |-> NoUser, users |-> us]
         ELSE [err |-> "none", via |-> "email", user |-> u,
               users |-> [us EXCEPT ![u].auth_provider = provider,
                                    ![u].external_id = external_id,
                                    ![u].email_verified = IF verified THEN 1 ELSE 0,
                                    ![u].last_login = now]]
    ELSE IF ~st.allow_registration
    THEN [err |-> "RegistrationDisabled", via |-> "none", user |-> NoUser, users |-> us]
    ELSE LET row == NewSsoUser(us, st, provider, external_id, email, verified) IN
         IF UniqueViolation(us, row)
         THEN [err |-> "IntegrityError", via |-> "none", user |-> NoUser, users |-> us]
         ELSE IF row.is_active = 0
         THEN [err |-> "PendingApprovalNewAccount", via |-> "created",
               user |-> NoUser, users |-> Append(us, row)]
         ELSE [err |-> "none", via |-> "created", user |-> Len(us) + 1,
               users |-> Append(us, row)]

\* mutant of link_sso_to_user: the e-mails are compared as they are
link_sso_to_user_exact_email(us, uid, provider, external_id, sso_email) ==
    IF us[uid].email /= NULL /\ us[uid].email /= sso_email
    THEN [err |-> "EmailMismatch", users |-> us]
    ELSE LET row == [us[uid] EXCEPT
                        !.auth_provider = provider,
                        !.external_id = external_id,
                        !.email_verified = 1,
                        !.email = IF us[uid].email = NULL THEN sso_email ELSE @] IN
         IF us[uid].email = NULL /\ EmailMatches(us, sso_email) /= {}
         THEN [err |-> "IntegrityError", users |-> us]
         ELSE [err |-> "none", users |-> [us EXCEPT ![uid] = row]]

\* link_sso_to_user(db, user, provider, external_id, sso_email)
link_sso_to_user(us, uid, provider, external_id, sso_email) ==
    IF us[uid].email /= NULL /\ Lower(us[uid].email) /= Lower(sso_email)
    THEN [err |-> "EmailMismatch", users |-> us]
    ELSE LET row == [us[uid] EXCEPT
                        !.auth_provider = provider,
                        !.external_id = external_id,
                        !.email_verified = 1,
                        !.email = IF us[uid].email = NULL THEN sso_email ELSE @] IN
         IF us[uid].email = NULL /\ EmailMatches(us, sso_email) /= {}
         THEN [err |-> "IntegrityError", users |-> us]
         ELSE [err |-> "none", users |-> [us EXCEPT ![uid] = row]]

\* ----------------------------------------------------------------- Broker
\* what db.query(SSOSettings).filter(provider == p).first() and
\* get_provider_instance() make of the provider's row, which only the
\* administrator's endpoints write: no row, enabled = 0, enabled without
\* client id or decryptable secret, enabled with credentials under a name
\* and a provider_type for which no provider class exists, or usable
SsoSettingsRows ==
    {"missing", "disabled", "unconfigured", "unsupported", "enabled"}

\* the error sso_callback ends with when the provider's row is not usable
SettingsError(cfg) ==
    IF cfg = "unsupported" THEN "UnsupportedProvider" ELSE "ProviderNotConfigured"

\* mutant of InitiateStatus: every failure of get_provider_instance is
\* answered as ProviderNotConfigured
InitiateStatus_not_configured(cfg) == IF cfg = "enabled" THEN 302 ELSE 503

\* the status sso_login and link_sso_account answer with after the state
\* was written: get_provider_instance raised, or the redirect
InitiateStatus(cfg) ==
    IF cfg = "enabled" THEN 302 ELSE IF cfg = "unsupported" THEN 401 ELSE 503

\* the e-mail the callback hands to the resolver (lines 388-402)
CallbackEmail(provider, info) ==
    IF info.email /= NULL THEN info.email
    ELSE IF info.username /= NULL THEN info.username \o "@" \o provider \o ".local"
    ELSE IF info.id /= NULL THEN info.id \o "@" \o provider \o ".local"
    ELSE NULL

\* the response of a callback that stops before or at state verification
Stopped(store, us, redirect, err, steps) ==
    [store |-> store, users |-> us, redirect |-> redirect, err |-> err,
     steps |-> steps, via |-> "none", user |-> NoUser, verified |-> FALSE]

\* mutants of CallbackResolve: an exception of the link other than the
\* ValueError escapes the handler; the linking_user_id of the state is ignored
CallbackResolve_raises(store, us, st, provider, linking_user_id, info, exact) ==
    LET email == CallbackEmail(provider, info)
        pre == <<"verify_state", "exchange_code_for_token", "get_user_info">>
        out(users2, redirect, err, steps, user) ==
            [store |-> store, users |-> users2, redirect |-> redirect,
             err |-> err, steps |-> steps, via |-> "none", user |-> user,
             verified |-> TRUE]
    IN
    IF email = NULL \/ info.id = NULL
    THEN out(us, "login?error", "MissingRequiredField", pre, NoUser)
    ELSE IF linking_user_id /= NoUser
    THEN IF linking_user_id \notin DOMAIN us
         THEN out(us, "settings?error", "UserNotFound", pre, NoUser)
         ELSE LET l == link_sso_to_user(us, linking_user_id, provider, info.id, email) IN
              IF l.err = "none"
              THEN out(l.users, "settings?success", "none",
                       pre \o <<"link_sso_to_user", "create_access_token">>,
                       linking_user_id)
              ELSE IF l.err = "EmailMismatch"
              THEN out(us, "settings?error", l.err, pre \o <<"link_sso_to_user">>, NoUser)
              ELSE out(us, "raise", l.err, pre \o <<"link_sso_to_user">>, NoUser)
    ELSE LET r == create_or_get_user_from_sso(us, st, provider, info.id, email,
                                              info.verified_email, exact) IN
         IF r.err = "none"
         THEN [out(r.users, "?token", "none",
                   pre \o <<"create_or_get_user_from_sso", "create_access_token">>,
                   r.user) EXCEPT !.via = r.via]
         ELSE [out(r.users, "login?error", r.err,
                   pre \o <<"create_or_get_user_from_sso">>, NoUser)
                 EXCEPT !.via = r.via]

CallbackResolve_ignores_linking(store, us, st, provider, linking_user_id, info, exact) ==
    LET email == CallbackEmail(provider, info)
        pre == <<"verify_state", "exchange_code_for_token", "get_user_info">>
        out(users2, redirect, err, steps, user) ==
            [store |-> store, users |-> users2, redirect |-> redirect,
             err |-> err, steps |-> steps, via |-> "none", user |-> user,
             verified |-> TRUE]
    IN
    IF email = NULL \/ info.id = NULL
    THEN out(us, "login?error", "MissingRequiredField", pre, NoUser)
    ELSE LET r == create_or_get_user_from_sso(us, st, provider, info.id, email,
                                              info.verified_email, exact) IN
         IF r.err = "none"
         THEN [out(r.users, "?token", "none",
                   pre \o <<"create_or_get_user_from_sso", "create_access_token">>,
                   r.user) EXCEPT !.via = r.via]
         ELSE [out(r.users, "login?error", r.err,
                   pre \o <<"create_or_get_user_from_sso">>, NoUser)
                 EXCEPT !.via = r.via]

\* lines 417-514 of sso_callback: the verified state carried linking_user_id
\* (0 for a login), the provider returned info
CallbackResolve(store, us, st, provider, linking_user_id, info, exact) ==
    LET email == CallbackEmail(provider, info)
        pre == <<"verify_state", "exchange_code_for_token", "get_user_info">>
        out(users2, redirect, err, steps, user) ==
            [store |-> store, users |-> users2, redirect |-> redirect,
             err |-> err, steps |-> steps, via |-> "none", user |-> user,
             verified |-> TRUE]
    IN
    IF email = NULL \/ info.id = NULL
    THEN out(us, "login?error", "MissingRequiredField", pre, NoUser)
    ELSE IF linking_user_id /= NoUser
    THEN IF linking_user_id \notin DOMAIN us
         THEN out(us, "settings?error", "UserNotFound", pre, NoUser)
         ELSE LET l == link_sso_to_user(us, linking_user_id, provider, info.id, email) IN
              IF l.err = "none"
              THEN out(l.users, "settings?success", "none",
                       pre \o <<"link_sso_to_user", "create_access_token">>,
                       linking_user_id)
              ELSE IF l.err = "EmailMismatch"
              THEN out(us, "settings?error", l.err, pre \o <<"link_sso_to_user">>, NoUser)
              ELSE out(us, "login?error", l.err, pre \o <<"link_sso_to_user">>, NoUser)
    ELSE LET r == create_or_get_user_from_sso(us, st, provider, info.id, email,
                                              info.verified_email, exact) IN
         IF r.err = "none"
         THEN [out(r.users, "?token", "none",
                   pre \o <<"create_or_get_user_from_sso", "create_access_token">>,
                   r.user) EXCEPT !.via = r.via]
         ELSE [out(r.users, "login?error", r.err,
                   pre \o <<"create_or_get_user_from_sso">>, NoUser)
                 EXCEPT !.via = r.via]

\* mutant of sso_callback: the result of verify_state is not checked
sso_callback_unverified(store, us, st, provider, code, state, error, cfg, xchg, info, exact) ==
    IF error /= NULL
    THEN Stopped(store, us, "login?error", "ProviderError", << >>)
    ELSE IF code = NULL \/ state = NoState
    THEN Stopped(store, us, "login?error", "MissingCodeOrState", << >>)
    ELSE LET v == verify_state(store, state, provider) IN
         IF cfg /= "enabled"
         THEN [Stopped(v.store, us, "login?error", SettingsError(cfg),
                       <<"verify_state">>) EXCEPT !.verified = v.ok]
         ELSE IF ~xchg
         THEN [Stopped(v.store, us, "login?error", "TokenExchangeFailed",
                       <<"verify_state", "exchange_code_for_token">>)
                 EXCEPT !.verified = v.ok]
         ELSE IF ~info.ok
         THEN [Stopped(v.store, us, "login?error", "NetworkError",
                       <<"verify_state", "exchange_code_for_token", "get_user_info">>)
                 EXCEPT !.verified = v.ok]
         ELSE [CallbackResolve(v.store, us, st, provider, v.user_id, info, exact)
                 EXCEPT !.verified = v.ok]

\* mutant of sso_callback: the row of the state is deleted when the provider
\* reports an error
sso_callback_consumes_on_error(store, us, st, provider, code, state, error, cfg, xchg, info, exact) ==
    IF error /= NULL
    THEN Stopped(store \ {state}, us, "login?error", "ProviderError", << >>)
    ELSE IF code = NULL \/ state = NoState
    THEN Stopped(store, us, "login?error", "MissingCodeOrState", << >>)
    ELSE LET v == verify_state(store, state, provider) IN
         IF ~v.ok
         THEN Stopped(v.store, us, "login?error", v.err, <<"verify_state">>)
         ELSE IF cfg /= "enabled"
         THEN [Stopped(v.store, us, "login?error", SettingsError(cfg),
                       <<"verify_state">>) EXCEPT !.verified = TRUE]
         ELSE IF ~xchg
         THEN [Stopped(v.store, us, "login?error", "TokenExchangeFailed",
                       <<"verify_state", "exchange_code_for_token">>)
                 EXCEPT !.verified = TRUE]
         ELSE IF ~info.ok
         THEN [Stopped(v.store, us, "login?error", "NetworkError",
                       <<"verify_state", "exchange_code_for_token", "get_user_info">>)
                 EXCEPT !.verified = TRUE]
         ELSE CallbackResolve(v.store, us, st, provider, v.user_id, info, exact)

\* sso_callback(provider, request, code, state, error, error_description, db):
\* cfg is the provider's settings row, xchg whether the token exchange
\* succeeded, info the user info the provider returned (info.ok) or the
\* failure of get_user_info
sso_callback(store, us, st, provider, code, state, error, cfg, xchg, info, exact) ==
    IF error /= NULL
    THEN Stopped(store, us, "login?error", "ProviderError", << >>)
    ELSE IF code = NULL \/ state = NoState
    THEN Stopped(store, us, "login?error", "MissingCodeOrState", << >>)
    ELSE LET v == verify_state(store, state, provider) IN
         IF ~v.ok
         THEN Stopped(v.store, us, "login?error", v.err, <<"verify_state">>)
         ELSE IF cfg /= "enabled"
         THEN [Stopped(v.store, us, "login?error", SettingsError(cfg),
                       <<"verify_state">>) EXCEPT !.verified = TRUE]
         ELSE IF ~xchg
         THEN [Stopped(v.store, us, "login?error", "TokenExchangeFailed",
                       <<"verify_state", "exchange_code_for_token">>)
                 EXCEPT !.verified = TRUE]
         ELSE IF ~info.ok
         THEN [Stopped(v.store, us, "login?error", "NetworkError",
                       <<"verify_state", "exchange_code_for_token", "get_user_info">>)
                 EXCEPT !.verified = TRUE]
         ELSE CallbackResolve(v.store, us, st, provider, v.user_id, info, exact)

\* --------------------------------------- discovery-capable provider clients
DiscoveryKinds == {"generic_oidc", "authentik", "synology"}
Endpoints == {"authorization", "token", "userinfo"}
NoEndpoints == [e \in Endpoints |-> NULL]
\* authorization_url / token_url / userinfo_url of an SSOSettings row
ManualConfigs ==
    { NoEndpoints,
      [e \in Endpoints |-> "manual"],
      [e \in Endpoints |-> IF e = "authorization" THEN "manual" ELSE NULL] }
\* response.json() of a discovery document that answers
DiscoveredDoc == [e \in Endpoints |-> "discovered"]
\* authorization_url and token_url and userinfo_url
AllSet(manual) == \A e \in Endpoints : manual[e] /= NULL
\* str(x) inside an f-string
Str(x) == IF x = NULL THEN "None" ELSE x

NoInstance == [kind |-> "none"]

\* get_provider_instance(provider_name, settings, request) for a row with
\* credentials: the constructor call of the kind, and for synology the
\* discovery request made before it
get_provider_instance(kind, discovery_url, manual, fetch_ok) ==
    IF kind = "synology"
    THEN IF discovery_url /\ ~AllSet(manual)
         THEN IF fetch_ok
              THEN [err |-> NULL,
                    inst |-> [kind |-> kind, discovery_url |-> discovery_url,
                              manual |-> manual, urls |-> DiscoveredDoc,
                              config_loaded |-> TRUE, fetches |-> 1]]
              ELSE [err |-> "SSOProviderNotConfiguredError", inst |-> NoInstance]
         ELSE [err |-> NULL,
               inst |-> [kind |-> kind, discovery_url |-> discovery_url,
                         manual |-> manual, urls |-> manual,
                         config_loaded |-> TRUE, fetches |-> 0]]
    ELSE IF kind = "authentik"
    THEN [err |-> NULL,
          inst |-> [kind |-> kind, discovery_url |-> discovery_url,
                    manual |-> manual,
                    urls |-> [e \in Endpoints |->
                                 IF manual[e] /= NULL THEN manual[e]
                                 ELSE "default"],
                    config_loaded |-> FALSE, fetches |-> 0]]
    ELSE [err |-> NULL,
          inst |-> [kind |-> kind, discovery_url |-> discovery_url,
                    manual |-> manual, urls |-> NoEndpoints,
                    config_loaded |-> FALSE, fetches |-> 0]]

\* GenericOIDCProvider._load_oidc_config
generic_load_oidc_config(i, fetch_ok) ==
    IF i.config_loaded
    THEN [err |-> NULL, inst |-> i]
    ELSE IF i.discovery_url
    THEN IF fetch_ok
         THEN [err |-> NULL,
               inst |-> [i EXCEPT !.urls = DiscoveredDoc,
                                  !.config_loaded = TRUE, !.fetches = @ + 1]]
         ELSE IF ~AllSet(i.manual)
         THEN [err |-> "ValueError", inst |-> [i EXCEPT !.fetches = @ + 1]]
         ELSE [err |-> NULL,
               inst |-> [i EXCEPT !.urls = i.manual,
                                  !.config_loaded = TRUE, !.fetches = @ + 1]]
    ELSE IF ~AllSet(i.manual)
    THEN [err |-> "ValueError", inst |-> i]
    ELSE [err |-> NULL,
          inst |-> [i EXCEPT !.urls = i.manual, !.config_loaded = TRUE]]

\* AuthentikProvider._load_oidc_config behind the callers' guard
\* "if self.discovery_url and not self._config"
authentik_load_oidc_config(i, fetch_ok) ==
    IF i.config_loaded \/ ~i.discovery_url
    THEN [err |-> NULL, inst |-> i]
    ELSE IF fetch_ok
    THEN [err |-> NULL,
          inst |-> [i EXCEPT !.urls = DiscoveredDoc,
                             !.config_loaded = TRUE, !.fetches = @ + 1]]
    ELSE [err |-> "HTTPError", inst |-> [i EXCEPT !.fetches = @ + 1]]

\* the configuration loading each provider method starts with
load_oidc_config(i, fetch_ok) ==
    IF i.kind = "generic_oidc" THEN generic_load_oidc_config(i, fetch_ok)
    ELSE IF i.kind = "authentik" THEN authentik_load_oidc_config(i, fetch_ok)
    ELSE [err |-> NULL, inst |-> i]

EndpointOf ==
    [get_authorization_url |-> "authorization",
     exchange_code_for_token |-> "token",
     get_user_info |-> "userinfo"]
ProviderMethods == DOMAIN EndpointOf

\* get_authorization_url(state)
get_authorization_url(i, fetch_ok) ==
    LET r == load_oidc_config(i, fetch_ok) IN
    IF r.err /= NULL
    THEN [err |-> r.err, inst |-> r.inst, url |-> NULL]
    ELSE [err |-> NULL, inst |-> r.inst,
          url |-> Str(r.inst.urls["authorization"]) \o "?client_id"]

\* exchange_code_for_token(code) and get_user_info(access_token) up to the
\* request they send: used is the endpoint the request goes to
provider_request(i, method, fetch_ok) ==
    LET r == load_oidc_config(i, fetch_ok) IN
    IF r.err /= NULL
    THEN [err |-> r.err, inst |-> r.inst, used |-> NULL]
    ELSE [err |-> NULL, inst |-> r.inst,
          used |-> r.inst.urls[EndpointOf[method]]]

\* ------------------------------------------------ sso/scheduler.py
CleanupJobId == "cleanup_expired_sso_states"
\* scheduler = AsyncIOScheduler()
NewScheduler == [running |-> FALSE, jobs |-> << >>, pending |-> << >>]

\* BaseScheduler._real_add_job(job, jobstore_alias, replace_existing) on the
\* memory job store, which keeps one job per id
real_add_job(jobs, id, replace_existing) ==
    IF \E k \in DOMAIN jobs : jobs[k] = id
    THEN IF replace_existing
         THEN [err |-> NULL, jobs |-> jobs]
         ELSE [err |-> "ConflictingIdError", jobs |-> jobs]
    ELSE [err |-> NULL, jobs |-> Append(jobs, id)]

\* scheduler.add_job(..., id=id, replace_existing=True): a stopped scheduler
\* keeps the job pending until it starts
add_job(sch, id) ==
    IF sch.running
    THEN LET r == real_add_job(sch.jobs, id, TRUE)
         IN  [err |-> r.err, sch |-> [sch EXCEPT !.jobs = r.jobs]]
    ELSE [err |-> NULL, sch |-> [sch EXCEPT !.pending = Append(@, id)]]

RECURSIVE AddPending(_, _)
AddPending(jobs, pending) ==
    IF pending = << >> THEN jobs
    ELSE AddPending(real_add_job(jobs, Head(pending), TRUE).jobs, Tail(pending))

\* scheduler.start()
scheduler_start(sch) ==
    IF sch.running
    THEN [err |-> "SchedulerAlreadyRunningError", sch |-> sch]
    ELSE [err |-> NULL,
          sch |-> [running |-> TRUE,
                   jobs |-> AddPending(sch.jobs, sch.pending),
                   pending |-> << >>]]

\* mutant of start_scheduler: no except clause around add_job and start
start_scheduler_unguarded(sch) ==
    LET a == add_job(sch, CleanupJobId)
        s == scheduler_start(a.sch)
    IN  [sch |-> s.sch, logged |-> NULL, raised |-> s.err /= NULL]

\* start_scheduler()
start_scheduler(sch) ==
    LET a == add_job(sch, CleanupJobId)
        s == IF a.err = NULL THEN scheduler_start(a.sch) ELSE a
    IN  [sch |-> s.sch, logged |-> s.err, raised |-> FALSE]

\* stop_scheduler()
stop_scheduler(sch) ==
    IF sch.running
    THEN [sch |-> [sch EXCEPT !.running = FALSE], logged |-> NULL,
          raised |-> FALSE]
    ELSE [sch |-> sch, logged |-> NULL, raised |-> FALSE]

\* okCount after a verify_state call
Counted(state, ok) ==
    IF ok THEN [okCount EXCEPT ![state] = @ + 1] ELSE okCount

Init ==
    /\ now = 0
    /\ issued = << >>
    /\ sso_states = {}
    /\ okCount = [t \in Tokens |-> 0]
    /\ last = [op |-> "init"]
    /\ workers = [w \in Procs |-> [pc |-> "idle"]]
    /\ users = << >>
    /\ settings = DefaultSettings
    /\ instance = NoInstance
    /\ scheduler = NewScheduler

\* the clock advances
Tick ==
    /\ now < MaxTime
    /\ now' = now + 1
    /\ UNCHANGED <<issued, sso_states, okCount, last, workers, acctVars, auxVars>>

\* generate_state(db, provider, user_id)
GenerateState(provider, user_id) ==
    /\ Len(issued) < MaxTokens
    /\ issued' = Append(issued, NewState(provider, user_id))
    /\ sso_states' = sso_states \cup {Len(issued) + 1}
    /\ last' = [op |-> "generate_state", state |-> Len(issued) + 1,
                provider |-> provider]
    /\ UNCHANGED <<now, okCount, workers, acctVars, auxVars>>

\* verify_state(db, state, provider), called directly
VerifyState(state, provider) ==
    LET r == verify_state(sso_states, state, provider) IN
    /\ sso_states' = r.store
    /\ okCount' = Counted(state, r.ok)
    /\ last' = [op |-> "verify_state", state |-> state, provider |-> provider,
                ok |-> r.ok, err |-> r.err, user_id |-> r.user_id,
                expired |-> (state \in sso_states /\ IsExpired(state))]
    /\ UNCHANGED <<now, issued, workers, acctVars, auxVars>>

\* mutant of cleanup_expired_states: rows that expire now are deleted too
cleanup_expired_states_inclusive(store) ==
    {s \in store : issued[s].expires_at > now}

\* mutant of cleanup_expired_states: the DELETE matches no row
cleanup_expired_states_keeps_rows(store) == store

\* cleanup_expired_states(db)
cleanup_expired_states(store) == {s \in store : ~IsExpired(s)}

CleanupExpiredStates ==
    /\ sso_states' = cleanup_expired_states(sso_states)
    /\ last' = [op |-> "cleanup_expired_states",
                count |-> Cardinality(sso_states \ cleanup_expired_states(sso_states))]
    /\ UNCHANGED <<now, issued, okCount, workers, acctVars, auxVars>>

\* ------------------------------------------------- broker endpoints
\* GET /api/sso/{provider}/login
SsoLogin(provider, cfg) ==
    /\ IF cfg = "missing"
       THEN /\ last' = [op |-> "sso_login", provider |-> provider, cfg |-> cfg,
                        status |-> 404, state |-> NoState]
            /\ UNCHANGED <<issued, sso_states>>
       ELSE IF cfg = "disabled"
       THEN /\ last' = [op |-> "sso_login", provider |-> provider, cfg |-> cfg,
                        status |-> 503, state |-> NoState]
            /\ UNCHANGED <<issued, sso_states>>
       ELSE /\ Len(issued) < MaxTokens
            /\ issued' = Append(issued, NewState(provider, NoUser))
            /\ sso_states' = sso_states \cup {Len(issued) + 1}
            /\ last' = [op |-> "sso_login", provider |-> provider, cfg |-> cfg,
                        status |-> InitiateStatus(cfg),
                        state |-> IF cfg = "enabled" THEN Len(issued) + 1
                                  ELSE NoState]
    /\ UNCHANGED <<now, okCount, workers, acctVars, auxVars>>

\* GET /api/sso/{provider}/link with the bearer token of account uid
LinkSsoAccount(uid, provider, cfg) ==
    /\ uid \in DOMAIN users
    /\ IF users[uid].auth_provider = provider
       THEN /\ last' = [op |-> "link_sso_account", provider |-> provider,
                        cfg |-> cfg, user |-> uid,
                        status |-> 400, state |-> NoState]
            /\ UNCHANGED <<issued, sso_states>>
       ELSE IF cfg = "missing"
       THEN /\ last' = [op |-> "link_sso_account", provider |-> provider,
                        cfg |-> cfg, user |-> uid,
                        status |-> 404, state |-> NoState]
            /\ UNCHANGED <<issued, sso_states>>
       ELSE IF cfg = "disabled"
       THEN /\ last' = [op |-> "link_sso_account", provider |-> provider,
                        cfg |-> cfg, user |-> uid,
                        status |-> 503, state |-> NoState]
            /\ UNCHANGED <<issued, sso_states>>
       ELSE /\ Len(issued) < MaxTokens
            /\ issued' = Append(issued, NewState(provider, uid))
            /\ sso_states' = sso_states \cup {Len(issued) + 1}
            /\ last' = [op |-> "link_sso_account", provider |-> provider,
                        cfg |-> cfg, user |-> uid,
                        status |-> InitiateStatus(cfg),
                        state |-> IF cfg = "enabled" THEN Len(issued) + 1
                                  ELSE NoState]
    /\ UNCHANGED <<now, okCount, workers, acctVars, auxVars>>

\* GET /api/sso/{provider}/callback
SsoCallback(provider, code, state, error, cfg, xchg, info) ==
    \E exact \in FirstChoices(ExactMatches(users, provider, info.id)) :
    \E r \in {sso_callback(sso_states, users, settings, provider, code, state,
                          error, cfg, xchg, info, exact)} :
      /\ Len(r.users) <= MaxUsers
      /\ sso_states' = r.store
      /\ users' = r.users
      /\ okCount' = Counted(state, r.verified)
      /\ last' = [op |-> "sso_callback", provider |-> provider, state |-> state,
                  code |-> code, error |-> error,
                  external_id |-> info.id, email |-> CallbackEmail(provider, info),
                  exact |-> exact, redirect |-> r.redirect, err |-> r.err,
                  steps |-> r.steps, via |-> r.via, user |-> r.user,
                  verified |-> r.verified]
      /\ UNCHANGED <<now, issued, workers, settings, auxVars>>

\* the session's user stays away longer than a state lives
TickTTL ==
    /\ now + StateTTL + 1 <= MaxTime
    /\ now' = now + StateTTL + 1
    /\ UNCHANGED <<issued, sso_states, okCount, last, workers, acctVars, auxVars>>

\* ------------------------------------------------ resolver, called directly
\* create_or_get_user_from_sso(db, provider, external_id, user_info)
CreateOrGetUserFromSso(provider, external_id, email, verified) ==
    \E exact \in FirstChoices(ExactMatches(users, provider, external_id)) :
    \E r \in {create_or_get_user_from_sso(users, settings, provider,
                                         external_id, email, verified, exact)} :
      /\ Len(r.users) <= MaxUsers
      /\ users' = r.users
      /\ last' = [op |-> "create_or_get_user_from_sso", provider |-> provider,
                  external_id |-> external_id, email |-> email, exact |-> exact,
                  err |-> r.err, via |-> r.via, user |-> r.user]
      /\ UNCHANGED <<now, issued, sso_states, okCount, workers, settings, auxVars>>

\* link_sso_to_user(db, user, provider, external_id, sso_email)
LinkSsoToUser(uid, provider, external_id, sso_email) ==
    /\ uid \in DOMAIN users
    /\ \E r \in {link_sso_to_user(users, uid, provider, external_id, sso_email)} :
       /\ users' = r.users
       /\ last' = [op |-> "link_sso_to_user", provider |-> provider,
                   external_id |-> external_id, email |-> sso_email,
                   err |-> r.err, user |-> uid]
    /\ UNCHANGED <<now, issued, sso_states, okCount, workers, settings, auxVars>>

\* POST /api/sso/{provider}/unlink by account uid; the HTTPException of the
\* missing password is caught by the handler's own except and becomes a 500
UnlinkSsoAccount(uid, provider, new_password) ==
    /\ uid \in DOMAIN users
    /\ IF users[uid].auth_provider /= provider
       THEN /\ last' = [op |-> "unlink_sso_account", provider |-> provider,
                        user |-> uid, new_password |-> new_password,
                        status |-> 400]
            /\ UNCHANGED users
       ELSE IF HasAt(users[uid].username) /\ new_password = NULL
       THEN /\ last' = [op |-> "unlink_sso_account", provider |-> provider,
                        user |-> uid, new_password |-> new_password,
                        status |-> 500]
            /\ UNCHANGED users
       ELSE /\ users' = [users EXCEPT
                   ![uid].hashed_password =
                       IF new_password /= NULL THEN new_password ELSE @,
                   ![uid].auth_provider = "local",
                   ![uid].external_id = NULL]
            /\ last' = [op |-> "unlink_sso_account", provider |-> provider,
                        user |-> uid, new_password |-> new_password,
                        status |-> 200]
    /\ UNCHANGED <<now, issued, sso_states, okCount, workers, settings, auxVars>>

\* POST /api/users/register
RegisterUser(username, email) ==
    /\ Len(users) < MaxUsers
    /\ LET row == [username |-> username, email |-> email,
                   hashed_password |-> "chosen", role |-> NewRole(users, settings),
                   is_active |-> NewIsActive(users, settings),
                   storage_quota_gb |-> NewQuota(users, settings),
                   auth_provider |-> "local", external_id |-> NULL,
                   email_verified |-> 0, last_login |-> NoLogin] IN
       IF ~settings.allow_registration
       THEN /\ last' = [op |-> "register_user", status |-> 403]
            /\ UNCHANGED users
       ELSE IF UniqueViolation(users, row)
       THEN /\ last' = [op |-> "register_user", status |-> 400]
            /\ UNCHANGED users
       ELSE /\ users' = Append(users, row)
            /\ last' = [op |-> "register_user", status |-> 200]
    /\ UNCHANGED <<now, issued, sso_states, okCount, workers, settings, auxVars>>

\* POST /api/users/{user_id}/approve
ApproveUser(uid) ==
    /\ uid \in DOMAIN users
    /\ users[uid].is_active = 0
    /\ users' = [users EXCEPT ![uid].is_active = 1]
    /\ last' = [op |-> "approve_user", user |-> uid]
    /\ UNCHANGED <<now, issued, sso_states, okCount, workers, settings, auxVars>>

\* set_setting(db, key, value) on the three rows the resolver reads
SetSetting(key, value) ==
    /\ settings' = [settings EXCEPT ![key] = value]
    /\ settings' /= settings
    /\ last' = [op |-> "set_setting"]
    /\ UNCHANGED <<now, issued, sso_states, okCount, workers, users, auxVars>>

SettingChange ==
    \/ \E b \in BOOLEAN : SetSetting("allow_registration", b)
    \/ \E b \in BOOLEAN : SetSetting("require_admin_approval", b)
    \/ \E r \in {"user", "admin"} : SetSetting("default_user_role", r)

NextStore ==
    \/ Tick
    \/ \E p \in Providers : GenerateState(p, NoUser)
    \/ \E s \in Tokens, p \in Providers : VerifyState(s, p)
    \/ CleanupExpiredStates

SpecStore == Init /\ [][NextStore]_vars

\* user info a provider may return
UserInfos(ids, emails, names, flags) ==
    [ok : {TRUE}, id : ids, email : emails, username : names,
     verified_email : flags]

NoInfo ==
    [ok |-> FALSE, id |-> NULL, email |-> NULL, username |-> NULL,
     verified_email |-> TRUE]

\* the resolver called login after login, between registrations, approvals
\* and changes of the settings
NextResolve ==
    \/ \E p \in Providers, x \in ExternalIDs, e \in Emails :
          CreateOrGetUserFromSso(p, x, e, TRUE)
    \/ \E e \in Emails \cup {NULL} : RegisterUser("alice", e)
    \/ \E u \in 1..MaxUsers : ApproveUser(u)
    \/ SettingChange

SpecResolve == Init /\ [][NextResolve]_vars

\* logins, links and unlinks, called one after another
NextLink ==
    \/ \E p \in Providers, x \in ExternalIDs, e \in Emails :
          CreateOrGetUserFromSso(p, x, e, TRUE)
    \/ \E u \in 1..MaxUsers, p \in Providers, x \in ExternalIDs, e \in Emails :
          LinkSsoToUser(u, p, x, e)
    \/ \E u \in 1..MaxUsers, p \in Providers, pw \in {NULL, "new"} :
          UnlinkSsoAccount(u, p, pw)

SpecLink == Init /\ [][NextLink]_vars

\* the callbacks a browser may send: with a provider error, without code or
\* state, and with both, the provider then answering in one of four ways
CallbackRequest(p, s) ==
    \/ SsoCallback(p, "abc", s, "access_denied", "enabled", TRUE, NoInfo)
    \/ SsoCallback(p, NULL, s, NULL, "enabled", TRUE, NoInfo)
    \/ /\ s /= NoState
       /\ \/ SsoCallback(p, "abc", s, NULL, "disabled", TRUE, NoInfo)
          \/ SsoCallback(p, "abc", s, NULL, "enabled", FALSE, NoInfo)
          \/ \E info \in UserInfos({"id-1"}, {"a@x.com", "A@x.com"}, {NULL}, {TRUE})
                         \cup {NoInfo} :
                SsoCallback(p, "abc", s, NULL, "enabled", TRUE, info)

\* the endpoints of the broker
NextBroker ==
    \/ TickTTL
    \/ \E p \in Providers, cfg \in SsoSettingsRows : SsoLogin(p, cfg)
    \/ \E u \in 1..MaxUsers, p \in Providers : LinkSsoAccount(u, p, "enabled")
    \/ \E p \in Providers, s \in Tokens \cup {NoState} : CallbackRequest(p, s)

SpecBroker == Init /\ [][NextBroker]_vars

\* logins under the admin-approval policy: registrations, approvals, changes
\* of the policy, and login flows whose state is verified
NextApproval ==
    \/ \E p \in Providers : SsoLogin(p, "enabled")
    \/ \E p \in Providers, s \in Tokens,
          info \in UserInfos(ExternalIDs, {"a@x.com"}, {NULL}, {TRUE}) :
          SsoCallback(p, "abc", s, NULL, "enabled", TRUE, info)
    \/ RegisterUser("alice", NULL)
    \/ \E u \in 1..MaxUsers : ApproveUser(u)
    \/ \E b \in BOOLEAN : SetSetting("require_admin_approval", b)

SpecApproval == Init /\ [][NextApproval]_vars

\* the user info of the login and link flows: an id with the e-mail of an
\* account or another e-mail, or neither id nor e-mail nor username
FlowInfos ==
    UserInfos({"id-1"}, {"a@x.com", "b@x.com"}, {NULL}, {TRUE})
        \cup UserInfos({NULL}, {NULL}, {NULL}, {TRUE})

\* the callbacks of the flows: every way in which a callback can stop.  What
\* the provider would answer matters only when the state's row exists.
FlowCallback(p, s) ==
    \/ /\ s \notin sso_states
       /\ SsoCallback(p, "abc", s, NULL, "enabled", TRUE, NoInfo)
    \/ /\ s \in sso_states
       /\ \/ SsoCallback(p, "abc", s, "access_denied", "enabled", TRUE, NoInfo)
          \/ SsoCallback(p, NULL, s, NULL, "enabled", TRUE, NoInfo)
          \/ \E cfg \in {"disabled", "unsupported"} :
                SsoCallback(p, "abc", s, NULL, cfg, TRUE, NoInfo)
          \/ SsoCallback(p, "abc", s, NULL, "enabled", FALSE, NoInfo)
          \/ \E info \in FlowInfos \cup {NoInfo} :
                SsoCallback(p, "abc", s, NULL, "enabled", TRUE, info)

\* login flows and link flows of registered accounts
NextFlow ==
    \/ \E p \in Providers : SsoLogin(p, "enabled")
    \/ \E u \in 1..MaxUsers, p \in Providers : LinkSsoAccount(u, p, "enabled")
    \/ \E e \in {NULL, "a@x.com"} : RegisterUser("alice", e)
    \/ \E p \in Providers, s \in Tokens \cup {NoState} : FlowCallback(p, s)

SpecFlow == Init /\ [][NextFlow]_vars

\* the e-mail addresses a provider may report in the link checks
LinkEmails == Emails \cup {"b@x.com"}

\* link_sso_to_user called on registered accounts, with and without an
\* e-mail on file, and on accounts an SSO login created
NextLinkFrame ==
    \/ \E e \in {NULL, "a@x.com"} : RegisterUser("alice", e)
    \/ \E p \in Providers, e \in {"A@x.com", "b@x.com"} :
          CreateOrGetUserFromSso(p, "id-1", e, TRUE)
    \/ \E u \in 1..MaxUsers, p \in Providers, x \in ExternalIDs, e \in LinkEmails :
          LinkSsoToUser(u, p, x, e)

SpecLinkFrame == Init /\ [][NextLinkFrame]_vars

\* ------------------------- create_or_get_user_from_sso, one step per commit
\* Each callback has its own Session.  The queries of steps 1 and 2 and the
\* decisions taken on their rows are one step; the attributes assigned to the
\* row, or the new row, reach the table at db.commit(), the second step.  The
\* UPDATE is keyed by the primary key alone, so it succeeds whatever another
\* session wrote to the row in between.
\* (auth_provider, external_id) of an account
Binding(us, uid) == <<us[uid].auth_provider, us[uid].external_id>>

RsQuery(w, provider, external_id, email) ==
    /\ workers[w].pc = "idle"
    /\ \E exact \in FirstChoices(ExactMatches(users, provider, external_id)) :
       \E r \in {create_or_get_user_from_sso(users, settings, provider,
                                            external_id, email, TRUE, exact)} :
         IF r.users = users
         THEN /\ last' = [op |-> "create_or_get_user_from_sso",
                          provider |-> provider, external_id |-> external_id,
                          email |-> email, exact |-> exact, err |-> r.err,
                          via |-> r.via, user |-> r.user,
                          seen |-> <<NULL, NULL>>, overlapped |-> FALSE]
              /\ UNCHANGED workers
         ELSE /\ workers' = [workers EXCEPT ![w] =
                     [pc |-> "resolved", provider |-> provider,
                      external_id |-> external_id, email |-> email,
                      exact |-> exact, via |-> r.via,
                      user |-> IF r.via = "created" THEN NoUser ELSE r.user,
                      row |-> r.users[IF r.via = "created" THEN Len(r.users)
                                      ELSE r.user],
                      seen |-> IF r.via = "created" THEN <<NULL, NULL>>
                               ELSE Binding(users, r.user)]]
              /\ UNCHANGED last
    /\ UNCHANGED <<now, issued, sso_states, okCount, acctVars, auxVars>>

RsCommit(w) ==
    LET c == workers[w]
        result(err, user) ==
            [op |-> "create_or_get_user_from_sso", provider |-> c.provider,
             external_id |-> c.external_id, email |-> c.email,
             exact |-> c.exact, err |-> err, via |-> c.via, user |-> user,
             seen |-> c.seen,
             overlapped |-> (c.via /= "created"
                             /\ Binding(users, c.user) /= c.seen)]
    IN
    /\ c.pc = "resolved"
    /\ IF c.via = "created"
       THEN IF UniqueViolation(users, c.row)
            THEN /\ last' = result("IntegrityError", NoUser)
                 /\ UNCHANGED users
            ELSE /\ Len(users) < MaxUsers
                 /\ users' = Append(users, c.row)
                 /\ last' = IF c.row.is_active = 0
                            THEN result("PendingApprovalNewAccount", NoUser)
                            ELSE result("none", Len(users) + 1)
       ELSE /\ users' = [users EXCEPT
                   ![c.user].auth_provider = c.row.auth_provider,
                   ![c.user].external_id = c.row.external_id,
                   ![c.user].email_verified = c.row.email_verified,
                   ![c.user].last_login = c.row.last_login]
            /\ last' = result("none", c.user)
    /\ workers' = [workers EXCEPT ![w] = [pc |-> "idle"]]
    /\ UNCHANGED <<now, issued, sso_states, okCount, settings, auxVars>>

\* logins of identities with one e-mail, in concurrent callbacks, while an
\* account with that e-mail is registered
NextConcResolve ==
    \/ RegisterUser("alice", "a@x.com")
    \/ \E w \in Procs, p \in Providers, x \in ExternalIDs :
          RsQuery(w, p, x, "a@x.com")
    \/ \E w \in Procs : RsCommit(w)

SpecConcResolve == Init /\ [][NextConcResolve]_vars

\* the provider names for which PUT /api/admin/sso/settings/{provider} lets
\* the administrator create and enable a row: any string, "local" included
ConfigurableProviders == Providers \cup {"local"}

\* login callbacks, link callbacks and unlinks for the providers an
\* administrator can configure
NextAdmin ==
    \/ \E p \in ConfigurableProviders : SsoLogin(p, "enabled")
    \/ \E u \in 1..MaxUsers, p \in ConfigurableProviders :
          LinkSsoAccount(u, p, "enabled")
    \/ \E p \in ConfigurableProviders, s \in Tokens,
          info \in UserInfos({"id-1"}, {"a@x.com"}, {NULL}, {TRUE}) :
          SsoCallback(p, "abc", s, NULL, "enabled", TRUE, info)
    \/ \E u \in 1..MaxUsers, p \in ConfigurableProviders :
          UnlinkSsoAccount(u, p, "new")
    \/ RegisterUser("alice", NULL)

SpecAdmin == Init /\ [][NextAdmin]_vars

\* repeat logins: the resolver called again after the session's user was
\* away, with the provider reporting the e-mail as verified or not
NextRepeat ==
    \/ TickTTL
    \/ \E p \in Providers, x \in ExternalIDs, e \in Emails, v \in BOOLEAN :
          CreateOrGetUserFromSso(p, x, e, v)
    \/ \E e \in Emails : RegisterUser("alice", e)

SpecRepeat == Init /\ [][NextRepeat]_vars

\* ------------------------------------------- provider clients, call by call
\* sso_login for an enabled row with credentials of a discovery-capable kind:
\* generate_state, get_provider_instance, get_authorization_url, and the
\* handlers of the try block
login_discovery(kind, discovery_url, manual, fetch_ok) ==
    LET p == get_provider_instance(kind, discovery_url, manual, fetch_ok)
        g == get_authorization_url(p.inst, fetch_ok)
    IN  IF p.err /= NULL
        THEN [status |-> 503, url |-> NULL, inst |-> p.inst]
        ELSE IF g.err /= NULL
        THEN [status |-> 401, url |-> NULL, inst |-> g.inst]
        ELSE [status |-> 302, url |-> g.url, inst |-> g.inst]

SsoLoginDiscovery(kind, discovery_url, manual, fetch_ok) ==
    \E r \in {login_discovery(kind, discovery_url, manual, fetch_ok)} :
      /\ Len(issued) < MaxTokens
      /\ issued' = Append(issued, NewState(kind, NoUser))
      /\ sso_states' = sso_states \cup {Len(issued) + 1}
      \* provider_instance is a local of the handler
      /\ instance' = NoInstance
      /\ last' = [op |-> "sso_login", provider |-> kind, cfg |-> "enabled",
                  status |-> r.status, url |-> r.url,
                  state |-> IF r.status = 302 THEN Len(issued) + 1 ELSE NoState,
                  discovery_url |-> discovery_url, manual |-> manual,
                  fetch_ok |-> fetch_ok]
      /\ UNCHANGED <<now, okCount, workers, acctVars, scheduler>>

\* get_provider_instance as sso_callback calls it
GetProviderInstance(kind, discovery_url, manual, fetch_ok) ==
    \E r \in {get_provider_instance(kind, discovery_url, manual, fetch_ok)} :
      /\ instance' = r.inst
      /\ last' = [op |-> "get_provider_instance", provider |-> kind,
                  err |-> r.err]
      /\ UNCHANGED <<now, issued, sso_states, okCount, workers, acctVars,
                     scheduler>>

\* one method call on the instance
ProviderCall(method, fetch_ok) ==
    /\ instance.kind /= "none"
    /\ instance.fetches < MaxFetches
    /\ \E r \in {IF method = "get_authorization_url"
                 THEN LET g == get_authorization_url(instance, fetch_ok)
                      IN  [err |-> g.err, inst |-> g.inst,
                           used |-> IF g.err = NULL
                                    THEN g.inst.urls["authorization"]
                                    ELSE NULL]
                 ELSE provider_request(instance, method, fetch_ok)} :
         /\ instance' = r.inst
         /\ last' = [op |-> method, provider |-> instance.kind, err |-> r.err,
                     used |-> r.used,
                     fetched |-> r.inst.fetches > instance.fetches]
    /\ UNCHANGED <<now, issued, sso_states, okCount, workers, acctVars,
                   scheduler>>

NextProvider ==
    \/ \E k \in DiscoveryKinds, d \in BOOLEAN, m \in ManualConfigs,
          f \in BOOLEAN : SsoLoginDiscovery(k, d, m, f)
    \/ \E k \in DiscoveryKinds, d \in BOOLEAN, m \in ManualConfigs,
          f \in BOOLEAN : GetProviderInstance(k, d, m, f)
    \/ \E method \in ProviderMethods, f \in BOOLEAN : ProviderCall(method, f)

SpecProvider == Init /\ [][NextProvider]_vars

\* ------------------------------------------------- the cleanup scheduler
\* startup_event calls start_scheduler()
StartScheduler ==
    \E r \in {start_scheduler(scheduler)} :
      /\ scheduler' = r.sch
      /\ last' = [op |-> "start_scheduler", logged |-> r.logged,
                  raised |-> r.raised, was_running |-> scheduler.running]
      /\ UNCHANGED <<now, issued, sso_states, okCount, workers, acctVars,
                     instance>>

\* shutdown_event calls stop_scheduler()
StopScheduler ==
    \E r \in {stop_scheduler(scheduler)} :
      /\ scheduler' = r.sch
      /\ last' = [op |-> "stop_scheduler", logged |-> r.logged,
                  raised |-> r.raised, was_running |-> scheduler.running]
      /\ UNCHANGED <<now, issued, sso_states, okCount, workers, acctVars,
                     instance>>

\* cleanup_expired_states_job(), fired by the interval trigger of a running
\* scheduler; db_ok = FALSE is a run whose DELETE raises: cleanup_expired_states
\* rolls back and returns 0
CleanupExpiredStatesJob(db_ok) ==
    /\ scheduler.running
    /\ \E k \in DOMAIN scheduler.jobs : scheduler.jobs[k] = CleanupJobId
    /\ sso_states' = IF db_ok THEN cleanup_expired_states(sso_states)
                     ELSE sso_states
    /\ last' = [op |-> "cleanup_expired_states_job", db_ok |-> db_ok,
                count |-> IF db_ok
                          THEN Cardinality(sso_states
                                   \ cleanup_expired_states(sso_states))
                          ELSE 0]
    /\ UNCHANGED <<now, issued, okCount, workers, acctVars, auxVars>>

NextScheduler ==
    \/ Tick
    \/ \E p \in Providers : GenerateState(p, NoUser)
    \/ StartScheduler
    \/ StopScheduler
    \/ \E db_ok \in BOOLEAN : CleanupExpiredStatesJob(db_ok)

SpecScheduler == Init /\ [][NextScheduler]_vars

\* ------------------------------------------- generic OIDC user info
GenericProvider == "acme"
\* the claims of a userinfo answer: sub stands for the first of sub, id and
\* user_id that is there, username for preferred_username or username
UserDatas ==
    [sub : {NULL, "id-1"}, email : {NULL, "a@x.com"}, username : {NULL, "bob"}]

\* GenericOIDCProvider.get_user_info: the normalised dictionary
generic_get_user_info(user_data) ==
    [ok |-> TRUE,
     id |-> Str(IF user_data.sub /= NULL THEN user_data.sub
                ELSE user_data.email),
     email |-> user_data.email,
     username |-> user_data.username,
     verified_email |-> TRUE]

\* GET /api/sso/acme/callback, the provider answering user_data
OidcCallback(provider, state, user_data) ==
    \E info \in {generic_get_user_info(user_data)} :
    \E exact \in FirstChoices(ExactMatches(users, provider, info.id)) :
    \E r \in {sso_callback(sso_states, users, settings, provider, "abc", state,
                          NULL, "enabled", TRUE, info, exact)} :
      /\ Len(r.users) <= MaxUsers
      /\ sso_states' = r.store
      /\ users' = r.users
      /\ okCount' = Counted(state, r.verified)
      /\ last' = [op |-> "sso_callback", provider |-> provider, state |-> state,
                  code |-> "abc", error |-> NULL, user_data |-> user_data,
                  external_id |-> info.id, email |-> CallbackEmail(provider, info),
                  exact |-> exact, redirect |-> r.redirect, err |-> r.err,
                  steps |-> r.steps, via |-> r.via, user |-> r.user,
                  verified |-> r.verified]
      /\ UNCHANGED <<now, issued, workers, settings, auxVars>>

\* logins through the generic OIDC provider
NextUserInfo ==
    \/ SsoLogin(GenericProvider, "enabled")
    \/ \E e \in {NULL, "a@x.com"} : RegisterUser("alice", e)
    \/ \E s \in Tokens, ud \in UserDatas : OidcCallback(GenericProvider, s, ud)

SpecUserInfo == Init /\ [][NextUserInfo]_vars

\* -------------------------------------------- the sweep, run under fairness
\* Between startup and shutdown of the process: states are generated while
\* the clock of the model can still pass their expiry, callbacks verify some
\* of them, and the interval trigger fires the cleanup job.
NextSweep ==
    \/ TickTTL
    \/ /\ now + StateTTL < MaxTime
       /\ SsoLogin("google", "enabled")
    \/ StartScheduler
    \/ \E db_ok \in BOOLEAN : CleanupExpiredStatesJob(db_ok)
    \/ \E p \in Providers, s \in Tokens, xchg \in BOOLEAN :
          SsoCallback(p, "abc", s, NULL, "enabled", xchg,
                      [ok |-> TRUE, id |-> "id-1", email |-> "a@x.com",
                       username |-> NULL, verified_email |-> TRUE])

\* time passes, startup_event starts the scheduler, and the interval trigger
\* keeps firing runs of the job that reach the database
SpecSweepLive ==
    /\ Init
    /\ [][NextSweep]_vars
    /\ WF_vars(TickTTL)
    /\ WF_vars(~scheduler.running /\ StartScheduler)
    /\ WF_vars(CleanupExpiredStatesJob(TRUE))

\* first logins of identities with distinct e-mails, in overlapping sessions
NextConcFirst ==
    \/ \E w \in Procs, p \in Providers, x \in ExternalIDs :
          RsQuery(w, p, x, IF x = "id-1" THEN "a@x.com" ELSE "b@x.com")
    \/ \E w \in Procs : RsCommit(w)

SpecConcFirst == Init /\ [][NextConcFirst]_vars

\* link flows started with the bearer token of any account on file, accounts
\* waiting for approval included: link_sso_account looks the account up by
\* the username in the token and reads nothing else of it
NextLinkInactive ==
    \/ CreateOrGetUserFromSso("google", "id-1", "b@x.com", TRUE)
    \/ \E b \in BOOLEAN : SetSetting("require_admin_approval", b)
    \/ \E e \in {NULL, "a@x.com"} : RegisterUser("alice", e)
    \/ \E u \in 1..MaxUsers : ApproveUser(u)
    \/ \E u \in 1..MaxUsers, p \in Providers : LinkSsoAccount(u, p, "enabled")
    \/ \E p \in Providers, s \in Tokens,
          info \in UserInfos({"id-2"}, {"a@x.com"}, {NULL}, {TRUE}) :
          SsoCallback(p, "abc", s, NULL, "enabled", TRUE, info)

SpecLinkInactive == Init /\ [][NextLinkInactive]_vars

\* --------------------------------------- verify_state, one step per statement
\* Each caller has its own Session (get_db).  The SELECT of lines 168-171 is
\* one step; db.delete() only marks the object, the DELETE is sent by
\* db.commit(), which is the second step.  A DELETE that matches no row makes
\* the ORM warn, not raise, so the call goes on and returns.
VsQuery(w, state, provider) ==
    /\ workers[w].pc = "idle"
    /\ IF FindState(sso_states, state, provider)
       THEN /\ workers' = [workers EXCEPT ![w] =
                   [pc |-> "found", state |-> state, provider |-> provider,
                    expired |-> IsExpired(state)]]
            /\ UNCHANGED last
       ELSE /\ last' = [op |-> "verify_state", state |-> state,
                        provider |-> provider, ok |-> FALSE,
                        err |-> "InvalidState", user_id |-> NoUser,
                        expired |-> FALSE]
            /\ UNCHANGED workers
    /\ UNCHANGED <<now, issued, sso_states, okCount, acctVars, auxVars>>

VsCommit(w) ==
    /\ workers[w].pc = "found"
    /\ sso_states' = sso_states \ {workers[w].state}
    /\ okCount' = Counted(workers[w].state, ~workers[w].expired)
    /\ last' = [op |-> "verify_state", state |-> workers[w].state,
                provider |-> workers[w].provider, ok |-> ~workers[w].expired,
                err |-> IF workers[w].expired THEN "ExpiredState" ELSE "none",
                user_id |-> IF workers[w].expired THEN NoUser
                            ELSE issued[workers[w].state].user_id,
                expired |-> workers[w].expired]
    /\ workers' = [workers EXCEPT ![w] = [pc |-> "idle"]]
    /\ UNCHANGED <<now, issued, acctVars, auxVars>>

NextConc ==
    \/ Tick
    \/ \E p \in Providers : GenerateState(p, NoUser)
    \/ \E w \in Procs, s \in Tokens, p \in Providers : VsQuery(w, s, p)
    \/ \E w \in Procs : VsCommit(w)

SpecConc == Init /\ [][NextConc]_vars

\* ------------------------------------------------------------------ claims
\* a verify_state step: the call and its result are in last'
VerifyStep(state, provider) ==
    /\ last'.op = "verify_state"
    /\ last'.state = state
    /\ last'.provider = provider
    /\ <<sso_states, okCount, last>>' /= <<sso_states, okCount, last>>

\* C1: in a sequential history, for a token minted for provider P and not yet
\* expired, the verify_state(token, P) that finds it unverified succeeds, and
\* every verify_state(token, P) after a successful one fails with
\* InvalidState or ExpiredState; no token is verified successfully twice.
C1_SingleUse ==
    [][\A s \in Tokens : \A p \in Providers :
         (VerifyStep(s, p) /\ s \in DOMAIN issued /\ issued[s].provider = p
            /\ ~IsExpired(s))
         => /\ (okCount[s] = 0 => last'.ok /\ okCount'[s] = 1)
            /\ (okCount[s] > 0 =>
                  ~last'.ok /\ last'.err \in {"InvalidState", "ExpiredState"}
                  /\ okCount'[s] = 1)]_vars

\* a token was verified successfully and a second verify_state of it failed
C1_Witness ==
    /\ last.op = "verify_state"
    /\ ~last.ok
    /\ okCount[last.state] = 1
    /\ issued[last.state].provider = last.provider
    /\ issued[last.state].expires_at >= now

\* C2: of the verify_state calls that run concurrently on one token, at most
\* one returns successfully.
C2_AtMostOneConcurrentSuccess ==
    \A s \in Tokens : okCount[s] < 2

\* C3: verify_state(token, B) of a token minted for another provider A fails
\* with InvalidState, expired or not, and consumes nothing.
C3_ProviderBound ==
    [][\A s \in Tokens : \A p \in Providers :
         (VerifyStep(s, p) /\ s \in DOMAIN issued /\ issued[s].provider /= p)
         => ~last'.ok /\ last'.err = "InvalidState"]_vars

\* a live token was presented to the wrong provider
C3_Witness ==
    /\ last.op = "verify_state"
    /\ last.state \in sso_states
    /\ issued[last.state].provider /= last.provider
    /\ last.err = "InvalidState"

\* C4: verify_state(token, provider) that finds a row whose expires_at is
\* earlier than now fails with ExpiredState, also when the token was never
\* used, and the row is gone afterwards.
C4_ExpiredRejected ==
    [][\A s \in Tokens : \A p \in Providers :
         (VerifyStep(s, p) /\ FindState(sso_states, s, p) /\ IsExpired(s))
         => /\ ~last'.ok
            /\ last'.err = "ExpiredState"
            /\ s \notin sso_states'
            /\ okCount'[s] = okCount[s]]_vars

\* a never-used token was rejected as expired
C4_Witness ==
    /\ last.op = "verify_state"
    /\ last.err = "ExpiredState"
    /\ okCount[last.state] = 0
    /\ last.state \notin sso_states
    /\ issued[last.state].expires_at < now

\* a callback step: the request and the response are in last'
CallbackStep ==
    /\ last'.op = "sso_callback"
    /\ <<sso_states, okCount, users, last>>' /= <<sso_states, okCount, users, last>>

\* the token is unknown, already consumed, minted for another provider or
\* expired
BadState(state, provider) ==
    \/ state \notin DOMAIN issued
    \/ state \notin sso_states
    \/ issued[state].provider /= provider
    \/ issued[state].expires_at < now

\* the steps of a callback that need a verified state
Guarded ==
    {"exchange_code_for_token", "get_user_info", "link_sso_to_user",
     "create_or_get_user_from_sso", "create_access_token"}

\* C5: in sso_callback the token exchange, the user-info fetch and every
\* creation or mutation of an account come after a successful verify_state of
\* the callback's (state, provider); a callback whose state is unknown,
\* consumed, expired or minted for another provider redirects with error= and
\* leaves the accounts as they were.
C5_VerifyFirst ==
    [][CallbackStep =>
         /\ (\E i \in DOMAIN last'.steps : last'.steps[i] \in Guarded)
               => /\ last'.steps[1] = "verify_state"
                  /\ ~BadState(last'.state, last'.provider)
                  /\ okCount'[last'.state] = okCount[last'.state] + 1
         /\ users' /= users => ~BadState(last'.state, last'.provider)
         /\ BadState(last'.state, last'.provider)
               => /\ last'.redirect = "login?error"
                  /\ last'.user = NoUser
                  /\ users' = users
                  /\ \A i \in DOMAIN last'.steps : last'.steps[i] \notin Guarded]_vars

\* a state that had logged an account in was replayed and rejected
C5_Witness ==
    /\ last.op = "sso_callback"
    /\ last.err = "InvalidState"
    /\ last.state \in DOMAIN issued
    /\ okCount[last.state] = 1
    /\ Len(users) > 0

\* C6: no two distinct accounts hold the same (auth_provider, external_id)
\* with a non-null external_id.
C6_UniqueIdentity ==
    \A i \in DOMAIN users : \A j \in DOMAIN users :
        (i /= j /\ users[i].external_id /= NULL)
        => <<users[i].auth_provider, users[i].external_id>>
              /= <<users[j].auth_provider, users[j].external_id>>

\* a resolver step: the call and its result are in last'
ResolveStep ==
    /\ last'.op = "create_or_get_user_from_sso"
    /\ <<users, last>>' /= <<users, last>>

\* the resolver has just returned an account for an identity, and is now
\* called for another identity with the same e-mail while that account is
\* active
SecondOfSameEmail ==
    /\ ResolveStep
    /\ last.op = "create_or_get_user_from_sso"
    /\ last.err = "none"
    /\ last'.email = last.email
    /\ <<last'.provider, last'.external_id>> /= <<last.provider, last.external_id>>
    /\ users[last.user].is_active = 1

\* the second resolution returns the account of the first, creates none, and
\* leaves it bound to the second identity
SameAccountRebound ==
    /\ last'.err = "none"
    /\ last'.user = last.user
    /\ Len(users') = Len(users)
    /\ users'[last.user].auth_provider = last'.provider
    /\ users'[last.user].external_id = last'.external_id

C8_RegistrationDisabled ==
    [][(/\ ResolveStep
        /\ ~settings.allow_registration
        /\ ExactMatches(users, last'.provider, last'.external_id) = {}
        /\ EmailMatches(users, last'.email) = {})
       => /\ last'.err = "RegistrationDisabled"
          /\ users' = users]_vars

\* a login was refused because registration is disabled
C8_Witness ==
    /\ last.op = "create_or_get_user_from_sso"
    /\ last.err = "RegistrationDisabled"
    /\ ~settings.allow_registration
    /\ EmailMatches(users, last.email) = {}

\* the first account exists and is the super administrator
FirstIsSuperAdmin ==
    /\ Len(users') = 1
    /\ users'[1].role = "super_admin"
    /\ users'[1].storage_quota_gb = SuperAdminQuota
    /\ users'[1].is_active = 1

\* C9 as stated: an SSO login that arrives while no account exists creates the
\* first account as super_admin with 100 GB and is_active = 1, whatever the
\* default role and the registration and approval policy.
C9_FirstAccountAlways ==
    [][(ResolveStep /\ Len(users) = 0) => FirstIsSuperAdmin]_vars

\* C9 as amended: the same when registration is allowed; whatever the default
\* role and the approval policy.
C9_FirstAccountSuperAdmin ==
    [][(ResolveStep /\ Len(users) = 0 /\ settings.allow_registration)
       => FirstIsSuperAdmin]_vars

\* the first account was created while the default role was admin and
\* approval was required
C9_Witness ==
    /\ last.op = "create_or_get_user_from_sso"
    /\ last.via = "created"
    /\ Len(users) = 1
    /\ users[1].role = "super_admin"
    /\ users[1].is_active = 1
    /\ settings.default_user_role = "admin"
    /\ settings.require_admin_approval

\* the account the resolver matches in a callback: the exact match, else the
\* account with the e-mail
Matched ==
    IF last'.exact /= NoUser THEN {last'.exact}
    ELSE EmailMatches(users, last'.email)

\* the callback reached the resolver
Resolved ==
    \E i \in DOMAIN last'.steps : last'.steps[i] = "create_or_get_user_from_sso"

\* C10: the resolver never returns an inactive account.  A matched inactive
\* account makes the login fail with PendingApproval and is not rebound; an
\* account created under the approval policy is stored with is_active = 0
\* and the login fails with PendingApprovalNewAccount; neither callback
\* issues a session token, and logins keep failing while the account is
\* inactive.
C10_NoInactiveLogin ==
    [][(CallbackStep /\ Resolved) =>
         /\ last'.redirect = "?token"
               => /\ last'.user \in DOMAIN users'
                  /\ users'[last'.user].is_active = 1
         /\ \A m \in Matched : users[m].is_active = 0
               => /\ last'.err = "PendingApproval"
                  /\ last'.redirect = "login?error"
                  /\ users' = users
         /\ (Matched = {} /\ Len(users) > 0 /\ settings.require_admin_approval)
               => /\ Len(users') = Len(users) + 1
                  /\ users'[Len(users')].is_active = 0
                  /\ last'.err = "PendingApprovalNewAccount"
                  /\ last'.redirect = "login?error"
         /\ Len(users') > Len(users)
               => (users'[Len(users')].is_active = 0
                     <=> last'.err = "PendingApprovalNewAccount")]_vars

\* the identity of an account created pending approval logged in again and
\* was refused
C10_Witness ==
    /\ last.op = "sso_callback"
    /\ last.err = "PendingApproval"
    /\ last.via = "exact"
    /\ users[last.exact].is_active = 0
    /\ users[last.exact].hashed_password = "random"


\* the responses of sso_callback that are a 302 to the frontend
Redirects == {"?token", "login?error", "settings?error", "settings?success"}

ErrorRedirects == {"login?error", "settings?error"}

\* C11: every sso_callback ends in a 302 redirect to the frontend, whichever
\* step fails: a provider error, a missing code or state, the state
\* verification, the provider's settings, the token exchange, the user-info
\* fetch, the resolver, the link, or an exception nothing expects; a failure
\* is answered with a redirect that carries error=.
C11_AlwaysRedirect ==
    [][CallbackStep =>
         /\ last'.redirect \in Redirects
         /\ last'.err /= "none" => last'.redirect \in ErrorRedirects]_vars

\* the commit of a link violated the unique e-mail: an exception that the
\* link branch does not catch ended in a redirect
C11_Witness ==
    /\ last.op = "sso_callback"
    /\ last.err = "IntegrityError"
    /\ last.redirect = "login?error"
    /\ issued[last.state].user_id /= NoUser

\* C12: every sso_callback that ends without an error, be it a login or a
\* link, has minted a session token and redirects with ?token=<session>;
\* every other callback redirects with ?error=<message>.
C12_TokenOnSuccess ==
    [][CallbackStep =>
         /\ last'.err = "none"
               => /\ last'.redirect = "?token"
                  /\ \E i \in DOMAIN last'.steps :
                        last'.steps[i] = "create_access_token"
         /\ last'.err /= "none" => last'.redirect \in ErrorRedirects]_vars

\* a link_sso_account step: the request and the response are in last'
LinkStep ==
    /\ last'.op = "link_sso_account"
    /\ <<issued, sso_states, last>>' /= <<issued, sso_states, last>>

\* the linking_user_id of the state a callback presents
LinkingUserId == issued[last'.state].user_id

\* the callback went past the user info and called this function next
Branch(f) == Len(last'.steps) > 3 /\ last'.steps[4] = f

LinkToUserStep ==
    /\ last'.op = "link_sso_to_user"
    /\ <<users, last>>' /= <<users, last>>

\* the account has no e-mail, or its e-mail is sso_email up to case
EmailAgrees(uid, sso_email) ==
    \/ users[uid].email = NULL
    \/ Lower(users[uid].email) = Lower(sso_email)

\* C14: link_sso_to_user fails with EmailMismatch exactly when the account
\* has an e-mail that differs from sso_email case-insensitively, and then
\* changes nothing.  When it succeeds it sets auth_provider, external_id and
\* email_verified = 1, fills in an empty e-mail with sso_email, and leaves
\* every other field of the account (password hash, role, is_active among
\* them) and every other account as they were.
C14_LinkFrame ==
    [][LinkToUserStep =>
         LET u == last'.user IN
         /\ last'.err = "EmailMismatch" <=> ~EmailAgrees(u, last'.email)
         /\ last'.err /= "none" => users' = users
         /\ last'.err = "none" =>
              users' = [users EXCEPT
                           ![u].auth_provider = last'.provider,
                           ![u].external_id = last'.external_id,
                           ![u].email_verified = 1,
                           ![u].email = IF @ = NULL THEN last'.email ELSE @]]_vars

\* an account whose e-mail differs from sso_email only by case was linked
C14_Witness ==
    /\ last.op = "link_sso_to_user"
    /\ last.err = "none"
    /\ users[last.user].email /= last.email
    /\ users[last.user].external_id = last.external_id
    /\ users[last.user].hashed_password = "chosen"

\* an unlink_sso_account step: the call and its answer are in last'
UnlinkStep ==
    /\ last'.op = "unlink_sso_account"
    /\ <<users, last>>' /= <<users, last>>

\* the unlink asks for the provider the account is linked to
UnlinkOfLinked == users[last'.user].auth_provider = last'.provider

\* C15: POST /sso/{provider}/unlink on an account linked to the provider
\* whose username is an e-mail, called without new_password, is answered
\* with HTTP 400 (PasswordRequired) and leaves auth_provider and external_id
\* as they were; an unlink answered with 200 has set auth_provider = 'local'
\* and external_id = null.
C15_PasswordRequired ==
    [][UnlinkStep =>
         LET u == last'.user IN
         /\ (/\ UnlinkOfLinked
             /\ HasAt(users[u].username)
             /\ last'.new_password = NULL)
               => /\ last'.status = 400
                  /\ users'[u].auth_provider = users[u].auth_provider
                  /\ users'[u].external_id = users[u].external_id
         /\ last'.status = 200
               => /\ users'[u].auth_provider = "local"
                  /\ users'[u].external_id = NULL]_vars


\* a sso_login step: the request and the response are in last'
LoginStep ==
    /\ last'.op = "sso_login"
    /\ <<issued, sso_states, last>>' /= <<issued, sso_states, last>>

\* sso_login wrote a state without linking user id and redirected with it
LoginRedirected ==
    /\ last'.status = 302
    /\ Len(issued') = Len(issued) + 1
    /\ last'.state = Len(issued')
    /\ last'.state \in sso_states'
    /\ issued'[last'.state].provider = last'.provider
    /\ issued'[last'.state].user_id = NoUser

\* sso_login failed before it wrote a state
LoginRefused(status) ==
    /\ last'.status = status
    /\ issued' = issued
    /\ sso_states' = sso_states

CleanupStep ==
    /\ last'.op = "cleanup_expired_states"
    /\ <<sso_states, last>>' /= <<sso_states, last>>

\* C17: cleanup_expired_states deletes exactly the rows with
\* expires_at < now: none of them remains, every row with expires_at >= now
\* is still in the table and still verifies, no row is added, and the count
\* returned is the number of rows removed.
C17_SweepExact ==
    [][CleanupStep =>
         /\ sso_states' \subseteq sso_states
         /\ \A s \in sso_states :
               s \in sso_states' <=> issued[s].expires_at >= now
         /\ \A s \in sso_states' :
               (verify_state(sso_states, s, issued[s].provider).ok)'
         /\ last'.count = Cardinality(sso_states) - Cardinality(sso_states')]_vars

\* a sweep removed an expired row and kept the row that expires now
C17_Witness ==
    /\ last.op = "cleanup_expired_states"
    /\ last.count = 1
    /\ \E s \in sso_states : issued[s].expires_at = now

\* the commit of a resolver call that matched an account by its e-mail
RebindCommitStep ==
    /\ last'.op = "create_or_get_user_from_sso"
    /\ last'.via = "email"
    /\ \E w \in Procs : workers[w].pc = "resolved" /\ workers'[w].pc = "idle"

\* C18: of two concurrent callbacks with distinct identities and the same
\* e-mail that match an account not yet linked, at most one rebinds the
\* account and is resolved; the callback that commits after the account was
\* rebound by the other fails and gets no session token.
C18_OneWinner ==
    [][(/\ RebindCommitStep
        /\ last'.seen = <<"local", NULL>>
        /\ last'.overlapped
        /\ Binding(users, last'.user) /= <<last'.provider, last'.external_id>>)
       => last'.err /= "none"]_vars

\* C19: every account with auth_provider = 'local' has external_id = null,
\* after any sequence of login callbacks, link callbacks and unlinks, for
\* any provider name an administrator can configure.
C19_LocalHasNoExternalId ==
    \A i \in DOMAIN users :
        users[i].auth_provider = "local" => users[i].external_id = NULL

\* C20: when an active account is bound to the identity,
\* create_or_get_user_from_sso returns that account and changes nothing but
\* its last_login: e-mail, email_verified and role are not overwritten from
\* the provider, no account is created, and an account that holds the
\* identity's e-mail stays as it was (the exact match goes first).
C20_ExactMatchFrame ==
    [][ResolveStep =>
         LET E == ExactMatches(users, last'.provider, last'.external_id) IN
         (E /= {} /\ \A i \in E : users[i].is_active = 1)
         => /\ last'.err = "none"
            /\ last'.user \in E
            /\ users' = [users EXCEPT ![last'.user].last_login = now]]_vars

\* a repeat login returned the account bound to the identity, stamped its
\* last_login, and left alone the other account, which holds the e-mail
C20_Witness ==
    /\ last.op = "create_or_get_user_from_sso"
    /\ last.err = "none"
    /\ last.via = "exact"
    /\ users[last.user].email /= last.email
    /\ users[last.user].last_login = now
    /\ now > 0
    /\ \E j \in DOMAIN users :
          /\ j /= last.user
          /\ users[j].email = last.email
          /\ users[j].last_login < now

\* the callback ends before verify_state finds a row: the provider reported
\* an error, the code or the state is missing, the token is unknown or
\* already consumed, or it was minted for another provider
NoRowFound ==
    \/ last'.error /= NULL
    \/ last'.code = NULL
    \/ last'.state = NoState
    \/ last'.state \notin sso_states
    \/ issued[last'.state].provider /= last'.provider

\* C21: a callback that ends before a matching state row is found leaves
\* the sso_states table as it was; a token it presented that is in the table
\* and not expired still verifies, once, for the provider it was minted for.
C21_NoStateConsumed ==
    [][(CallbackStep /\ NoRowFound) =>
         /\ sso_states' = sso_states
         /\ okCount' = okCount
         /\ users' = users
         /\ (last'.state \in sso_states /\ ~IsExpired(last'.state)) =>
              LET v == verify_state(sso_states', last'.state,
                                    issued[last'.state].provider) IN
              /\ v.ok
              /\ last'.state \notin v.store]_vars

\* a callback carried a provider error together with a state of that
\* provider, which is still in the table and not expired
C21_Witness ==
    /\ last.op = "sso_callback"
    /\ last.error /= NULL
    /\ last.state \in sso_states
    /\ issued[last.state].provider = last.provider
    /\ issued[last.state].expires_at >= now
\* ---------------------------------------------------------------- C22
LoginDiscoveryStep ==
    /\ last'.op = "sso_login"
    /\ last'.provider \in DiscoveryKinds
    /\ Len(issued') = Len(issued) + 1

\* discovery fails or no discovery URL is set, and no manual endpoint
Unresolvable(l) ==
    /\ ~l.discovery_url \/ ~l.fetch_ok
    /\ l.manual = NoEndpoints

\* C22: a login through a discovery-capable provider whose authorization
\* endpoint cannot be resolved is refused with ProviderNotConfigured (503)
\* and no authorization URL goes back to the browser.
C22_UnresolvedIsNotConfigured ==
    [][(LoginDiscoveryStep /\ Unresolvable(last'))
          => (last'.status = 503 /\ last'.url = NULL)]_vars

\* ---------------------------------------------------------------- C23
\* C23: once an instance's configuration is loaded, every endpoint that was
\* configured explicitly is the endpoint in use, and a discovered value is in
\* use only where none was configured.
C23_ExplicitWins ==
    (instance.kind /= "none" /\ instance.config_loaded)
        => \A e \in Endpoints :
              instance.manual[e] /= NULL
                  => instance.urls[e] = instance.manual[e]

\* ---------------------------------------------------------------- C24
\* C24: over any sequence of method calls on one provider instance the
\* discovery document is requested at most once, a failed request included.
C24_FetchedAtMostOnce ==
    instance.kind /= "none" => instance.fetches <= 1

\* ---------------------------------------------------------------- C25
JobCount(sch) ==
    Cardinality({k \in DOMAIN sch.jobs : sch.jobs[k] = CleanupJobId})
        + Cardinality({k \in DOMAIN sch.pending : sch.pending[k] = CleanupJobId})

SchedulerStep ==
    /\ last'.op \in {"start_scheduler", "stop_scheduler"}
    /\ last' /= last \/ scheduler' /= scheduler

\* C25: no start_scheduler or stop_scheduler call raises to its caller, the
\* scheduler never holds more than one cleanup_expired_sso_states job, and a
\* stop_scheduler call on a scheduler that is not running changes nothing.
C25_SchedulerIdempotent ==
    [][SchedulerStep
          => /\ ~last'.raised
             /\ JobCount(scheduler') <= 1
             /\ (last'.op = "stop_scheduler" /\ ~scheduler.running)
                   => scheduler' = scheduler]_vars

\* a second start_scheduler on the running scheduler: start() raised, the
\* handler logged it, and the job is there once
C25_Witness ==
    /\ last.op = "start_scheduler"
    /\ last.was_running
    /\ last.logged = "SchedulerAlreadyRunningError"
    /\ JobCount(scheduler) = 1

\* ---------------------------------------------------------------- C26
OidcStep ==
    /\ last'.op = "sso_callback"
    /\ last'.provider = GenericProvider
    /\ last'.verified
    /\ okCount' /= okCount

\* C26: a callback whose provider answer holds no external id ends in
\* MissingRequiredField and leaves the accounts as they were.
C26_NoIdNoAccount ==
    [][(OidcStep /\ last'.user_data.sub = NULL)
          => (last'.err = "MissingRequiredField" /\ users' = users)]_vars

\* ---------------------------------------------------------------- C27
\* C27: every row of the sso_states table is eventually deleted, by the
\* callback that verifies it or, once expired, by a run of the cleanup job;
\* runs of the job that fail do not stop later runs from deleting it.
C27_EveryRowDestroyed ==
    \A t \in Tokens : (t \in sso_states) ~> (t \notin sso_states)

\* a run of the job deletes a row after an earlier run failed
C27_Witness ==
    /\ last.op = "cleanup_expired_states_job"
    /\ last.db_ok
    /\ last.count > 0
    /\ sso_states = {}
    /\ Len(issued) = MaxTokens

\* ---------------------------------------------------------------- C28
InitiateStep ==
    /\ last'.op \in {"sso_login", "link_sso_account"}
    /\ last' /= last \/ issued' /= issued

\* C28: a login or link initiation that does not answer with the
\* authorization redirect leaves the sso_states table as it was.
C28_FailedInitiateWritesNoState ==
    [][(InitiateStep /\ last'.status /= 302)
          => (sso_states' = sso_states /\ issued' = issued)]_vars

\* ---------------------------------------------------------------- C29
SuperAdmins(us) == {u \in DOMAIN us : us[u].role = "super_admin"}

\* C29: whatever the interleaving of create_or_get_user_from_sso calls that
\* start on the empty users table, at most one account is a super_admin.
C29_OneSuperAdmin == Cardinality(SuperAdmins(users)) <= 1

\* ---------------------------------------------------------------- C30
\* the callback consumed a state that is bound to an account with
\* is_active = 0
InactiveLinkStep ==
    /\ last'.op = "sso_callback"
    /\ last'.verified
    /\ okCount' /= okCount
    /\ issued[last'.state].user_id \in DOMAIN users
    /\ users[issued[last'.state].user_id].is_active = 0

\* C30: a link callback for an account that is not active fails: it changes
\* no account and creates no access token.
C30_NoLinkForInactive ==
    [][InactiveLinkStep
          => /\ users' = users
             /\ last'.err /= "none"
             /\ \A k \in DOMAIN last'.steps :
                   last'.steps[k] /= "create_access_token"]_vars

=============================================================================
